---------------------------- MODULE Spec2Model ----------------------------
(***************************************************************************)
(* Model of the product search endpoint of search-quest                    *)
(* (products/views.py, ProductViewSet.search and its helpers).             *)
(*                                                                         *)
(* Strings are sequences of Unicode code points.  A queryset is a record   *)
(* [ids, order_by]: Django querysets are lazy, so a stage builds a         *)
(* queryset, .exists() asks whether its id set is empty, and the rows are  *)
(* ordered only when the response is serialized.  Scores are in            *)
(* thousandths (0.05 is 50, 0.1 is 100).  What PostgreSQL computes         *)
(* (ts_rank, trigram similarity, the order of rows the ORDER BY leaves     *)
(* unordered, whether a query fails) is an oracle chosen in the initial    *)
(* state.                                                                  *)
(***************************************************************************)
EXTENDS Integers, Sequences, FiniteSets, TLC

VARIABLES
    catalog,         \* the Product table: a sequence of rows, id = index
    oracle,          \* per row, what the database computes for this request
    db_order,        \* order in which the database returns rows that tie
    db_fault,        \* the database query that raises an error, if any
    writes,          \* the Product rows written so far, and how
    params,          \* request.query_params: a function on the keys present
    pc,              \* position of the request inside search()
    stack,           \* callers waiting for the queryset of the running stage
    english_part,    \* views.py:78
    arabic_part,     \* views.py:79
    search_results,  \* the queryset handed from stage to stage
    calls,           \* the stages invoked so far, in order
    response         \* the Response returned, status 0 while in progress

vars == <<catalog, oracle, db_order, db_fault, writes, params, pc, stack, english_part,
          arabic_part, search_results, calls, response>>

(* What a search request reads and never writes. *)
database == <<catalog, oracle, db_order, db_fault, writes>>

-----------------------------------------------------------------------------
(* Code points used by the model. *)

SP == 32
QUOTE == 39
DQUOTE == 34
PLUS == 43
MINUS == 45
DIGIT0 == 48
DIGIT9 == 57
UPPER_A == 65
UPPER_Z == 90
CASE_OFFSET == 32
ARABIC_FIRST == 1536
ARABIC_LAST == 1791

PAGE_SIZE == 20
SHORT_SEGMENT == 2
SHORT_THRESHOLD == 50
LONG_THRESHOLD == 100
DESC_WEIGHT_TENTHS == 5

-----------------------------------------------------------------------------
(* String helpers standing for the Python and SQL string operations used. *)

Min(a, b) == IF a <= b THEN a ELSE b
Max(a, b) == IF a >= b THEN a ELSE b

IsSpace(c) == c = SP

(* Every code point from U+0600 upwards taken for Arabic. *)
IsArabicOrBeyond(c) == ARABIC_FIRST <= c

(* '\u0600' <= c <= '\u06FF' *)
IsArabic(c) == ARABIC_FIRST <= c /\ c <= ARABIC_LAST

Lower(c) == IF UPPER_A <= c /\ c <= UPPER_Z THEN c + CASE_OFFSET ELSE c

LowerStr(s) == [i \in 1..Len(s) |-> Lower(s[i])]

RECURSIVE LStrip(_)
LStrip(s) == IF s # <<>> /\ IsSpace(Head(s)) THEN LStrip(Tail(s)) ELSE s

RECURSIVE RStrip(_)
RStrip(s) ==
    IF s # <<>> /\ IsSpace(s[Len(s)]) THEN RStrip(SubSeq(s, 1, Len(s) - 1)) ELSE s

(* The string left as it is. *)
NoStrip(s) == s

(* str.strip() *)
Strip(s) == RStrip(LStrip(s))

NotQuote(c) == c # QUOTE /\ c # DQUOTE

RemoveQuotes(s) == SelectSeq(s, NotQuote)

(* str.split(): the maximal runs of non-whitespace characters, in order. *)
RECURSIVE SplitFrom(_, _, _)
SplitFrom(s, i, word) ==
    IF i > Len(s)
    THEN IF word = <<>> THEN <<>> ELSE <<word>>
    ELSE IF IsSpace(s[i])
         THEN IF word = <<>>
              THEN SplitFrom(s, i + 1, <<>>)
              ELSE <<word>> \o SplitFrom(s, i + 1, <<>>)
         ELSE SplitFrom(s, i + 1, Append(word, s[i]))

Split(s) == SplitFrom(s, 1, <<>>)

IsPrefix(p, s) == Len(p) <= Len(s) /\ SubSeq(s, 1, Len(p)) = p

Contains(hay, needle) ==
    \E i \in 0..(Len(hay) - Len(needle)) :
        SubSeq(hay, i + 1, i + Len(needle)) = needle

(* The SQL behind __icontains: UPPER(field) LIKE UPPER('%text%'). *)
IContains(field, text) == Contains(LowerStr(field), LowerStr(text))

Range(f) == {f[i] : i \in DOMAIN f}

Get(p, key, default) == IF key \in DOMAIN p THEN p[key] ELSE default

-----------------------------------------------------------------------------
(* Querysets. *)

Ids == 1..Len(catalog)

QuerySet(ids, order_by) == [ids |-> ids, order_by |-> order_by]

(* Product.objects.none() *)
NoneQS == QuerySet({}, "none")

(* queryset.exists() *)
Exists(qs) == qs.ids # {}

-----------------------------------------------------------------------------
(* Full-text stage: _prepare_tsquery and the search_vector match. *)

(* to_tsvector over the four text fields: the lower-cased words.  The      *)
(* column is filled outside views.py; a row whose vector was never filled  *)
(* holds NULL, which matches nothing, like the empty vector.               *)
NullVector == {}

Lexemes(text) == {LowerStr(w) : w \in Range(Split(text))}

ToTsVector(row) ==
    Lexemes(row.name_en) \cup Lexemes(row.description_en)
        \cup Lexemes(row.name_ar) \cup Lexemes(row.description_ar)

(* SearchQuery(''): the query without terms. *)
EmptySearchQuery == {}

(* SearchQuery(f"{word}:*", search_type='raw', config=config) *)
WordQuery(word, config) == {[prefix |-> word, config |-> config]}

(* search_query | word_query *)
OrQuery(q1, q2) == q1 \cup q2

(* Words of every length kept. *)
AnyLength(word) == TRUE

(* _prepare_tsquery, lines 129-130: words under 2 characters are skipped. *)
LongEnough(word) == ~(Len(word) < 2)

prepare_tsquery(query, config) ==
    LET words == Split(Strip(RemoveQuotes(query)))
        kept  == SelectSeq(words, LongEnough)
    IN  IF words = <<>> THEN EmptySearchQuery
        ELSE UNION ({WordQuery(kept[i], config) : i \in DOMAIN kept}
                        \cup {EmptySearchQuery})

(* search_vector @@ tsquery: some term is a prefix of some lexeme. *)
VectorMatches(vector, tsquery) ==
    \E t \in tsquery : \E l \in vector : IsPrefix(LowerStr(t.prefix), l)

(* combined_query of _full_text_search, as a sequence of tsqueries. *)
CombinedQuery(en, ar) ==
    (IF en # <<>> THEN <<prepare_tsquery(en, "english")>> ELSE <<>>)
        \o (IF ar # <<>> THEN <<prepare_tsquery(ar, "simple")>> ELSE <<>>)

FinalQuery(en, ar) ==
    LET cq == CombinedQuery(en, ar)
    IN  IF Len(cq) = 2 THEN OrQuery(cq[1], cq[2]) ELSE cq[1]

FullTextResults(en, ar) ==
    QuerySet({i \in Ids : VectorMatches(catalog[i].search_vector, FinalQuery(en, ar))},
             "-rank")

-----------------------------------------------------------------------------
(* Substring stage: _fallback_search. *)

(* The substring stage that also looks into the descriptions. *)
DirectMatchesWithDescriptions(en, ar) ==
    QuerySet({i \in Ids :
                \/ en = <<>> /\ ar = <<>>
                \/ en # <<>> /\ (IContains(catalog[i].name_en, en)
                                 \/ IContains(catalog[i].description_en, en))
                \/ ar # <<>> /\ (IContains(catalog[i].name_ar, ar)
                                 \/ IContains(catalog[i].description_ar, ar))},
             "none")

DirectMatches(en, ar) ==
    QuerySet({i \in Ids :
                \/ en = <<>> /\ ar = <<>>
                \/ en # <<>> /\ IContains(catalog[i].name_en, en)
                \/ ar # <<>> /\ IContains(catalog[i].name_ar, ar)},
             "none")

-----------------------------------------------------------------------------
(* Trigram stage: _trigram_search. *)

Threshold(part) == IF Len(part) <= SHORT_SEGMENT THEN SHORT_THRESHOLD ELSE LONG_THRESHOLD

(* The description similarity taken at full weight. *)
DiscountMissing(sim) == sim

(* TrigramSimilarity(description, part) * 0.5 *)
Discount(sim) == (sim * DESC_WEIGHT_TENTHS) \div 10

(* The similarities added up instead of the largest taken. *)
RECURSIVE GreatestAsSum(_)
GreatestAsSum(values) ==
    IF Len(values) = 1
    THEN Head(values)
    ELSE Head(values) + GreatestAsSum(Tail(values))

RECURSIVE Greatest(_)
Greatest(values) ==
    IF Len(values) = 1
    THEN Head(values)
    ELSE Max(Head(values), Greatest(Tail(values)))

SimilarityValues(i, en, ar) ==
    (IF en # <<>>
     THEN <<oracle[i].name_en_sim, Discount(oracle[i].desc_en_sim)>> ELSE <<>>)
        \o (IF ar # <<>>
            THEN <<oracle[i].name_ar_sim, Discount(oracle[i].desc_ar_sim)>> ELSE <<>>)

(* best_score: Greatest over the similarity expressions and Value(0.0). *)
BestScore(i, en, ar) == Greatest(SimilarityValues(i, en, ar) \o <<0>>)

(* The stricter of the two thresholds governing a mixed query. *)
MinThresholdAsMax(en, ar) ==
    IF ar # <<>> /\ en # <<>>
    THEN Max(Threshold(en), Threshold(ar))
    ELSE IF en # <<>> THEN Threshold(en) ELSE Threshold(ar)

MinThreshold(en, ar) ==
    IF ar # <<>> /\ en # <<>>
    THEN Min(Threshold(en), Threshold(ar))
    ELSE IF en # <<>> THEN Threshold(en) ELSE Threshold(ar)

(* Admission at the threshold as well as above it. *)
TrigramResultsInclusive(en, ar) ==
    IF en = <<>> /\ ar = <<>>
    THEN NoneQS
    ELSE QuerySet({i \in Ids : BestScore(i, en, ar) >= MinThreshold(en, ar)},
                  "-best_score")

TrigramResults(en, ar) ==
    IF en = <<>> /\ ar = <<>>
    THEN NoneQS
    ELSE QuerySet({i \in Ids : BestScore(i, en, ar) > MinThreshold(en, ar)},
                  "-best_score")

-----------------------------------------------------------------------------
(* Filters: _apply_filters. *)

IsDigit(c) == DIGIT0 <= c /\ c <= DIGIT9

RECURSIVE DigitsValue(_)
DigitsValue(s) ==
    IF s = <<>> THEN 0
    ELSE 10 * DigitsValue(SubSeq(s, 1, Len(s) - 1)) + (s[Len(s)] - DIGIT0)

(* int(text): surrounding whitespace and one sign are accepted, then       *)
(* digits only; anything else raises ValueError.                           *)
ParseInt(text) ==
    LET t      == Strip(text)
        signed == t # <<>> /\ (Head(t) = PLUS \/ Head(t) = MINUS)
        digits == IF signed THEN Tail(t) ELSE t
        good   == digits # <<>> /\ \A i \in DOMAIN digits : IsDigit(digits[i])
    IN  [ok    |-> good,
         value |-> IF ~good THEN 0
                   ELSE IF signed /\ Head(t) = MINUS
                        THEN 0 - DigitsValue(digits) ELSE DigitsValue(digits)]

(* nutrition_facts__<key>: NULL when the column is NULL or lacks the key,  *)
(* and a comparison with NULL keeps no row.                                *)
HasFact(i, key) == key \in DOMAIN catalog[i].nutrition_facts

FilterCategory(qs, text) ==
    [qs EXCEPT !.ids = {i \in qs.ids : IContains(catalog[i].category, text)}]

(* A brand filter that starts again from the whole table. *)
FilterBrandOfAll(qs, text) ==
    [qs EXCEPT !.ids = {i \in Ids : IContains(catalog[i].brand, text)}]

FilterBrand(qs, text) ==
    [qs EXCEPT !.ids = {i \in qs.ids : IContains(catalog[i].brand, text)}]

FilterMaxCalories(qs, bound) ==
    [qs EXCEPT !.ids = {i \in qs.ids :
        HasFact(i, "calories") /\ catalog[i].nutrition_facts["calories"] <= bound}]

FilterMinProtein(qs, bound) ==
    [qs EXCEPT !.ids = {i \in qs.ids :
        HasFact(i, "protein") /\ catalog[i].nutrition_facts["protein"] >= bound}]

(* params.get(key) is None for an absent key; None and '' are both falsy,  *)
(* so both read as the empty string here.                                  *)
Param(p, key) == Get(p, key, <<>>)

(* The exception int() raises in _apply_filters, if any. *)
FilterError(p) ==
    \/ Param(p, "max_calories") # <<>> /\ ~ParseInt(Param(p, "max_calories")).ok
    \/ Param(p, "min_protein") # <<>> /\ ~ParseInt(Param(p, "min_protein")).ok

(* One of the four if-blocks of _apply_filters, by its parameter. *)
apply_filter(queryset, p, key) ==
    IF Param(p, key) = <<>> THEN queryset
    ELSE CASE key = "category"     -> FilterCategory(queryset, Param(p, key))
           [] key = "brand"        -> FilterBrand(queryset, Param(p, key))
           [] key = "max_calories" ->
                  FilterMaxCalories(queryset, ParseInt(Param(p, key)).value)
           [] key = "min_protein"  ->
                  FilterMinProtein(queryset, ParseInt(Param(p, key)).value)

(* The if-blocks taken in the order keys gives. *)
RECURSIVE ApplyInOrder(_, _, _)
ApplyInOrder(queryset, p, keys) ==
    IF keys = <<>> THEN queryset
    ELSE ApplyInOrder(apply_filter(queryset, p, Head(keys)), p, Tail(keys))

apply_filters(queryset, p) ==
    LET q1 == IF Param(p, "category") # <<>>
              THEN FilterCategory(queryset, Param(p, "category")) ELSE queryset
        q2 == IF Param(p, "brand") # <<>>
              THEN FilterBrand(q1, Param(p, "brand")) ELSE q1
        q3 == IF Param(p, "max_calories") # <<>>
              THEN FilterMaxCalories(q2, ParseInt(Param(p, "max_calories")).value)
              ELSE q2
        q4 == IF Param(p, "min_protein") # <<>>
              THEN FilterMinProtein(q3, ParseInt(Param(p, "min_protein")).value)
              ELSE q3
    IN  q4

-----------------------------------------------------------------------------
(* Evaluation of a queryset: ORDER BY, then the slice [:20]. *)

RowScore(i, order_by) ==
    CASE order_by = "-rank"       -> oracle[i].rank
      [] order_by = "-best_score" -> BestScore(i, english_part, arabic_part)
      [] OTHER                    -> 0

(* Rows the ORDER BY does not separate come in the order the database      *)
(* happens to produce them.                                                *)
TieBefore(a, b) == IF db_order = "asc" THEN a < b ELSE a > b

ComesBefore(a, b, order_by) ==
    \/ RowScore(a, order_by) > RowScore(b, order_by)
    \/ RowScore(a, order_by) = RowScore(b, order_by) /\ TieBefore(a, b)

(* The rows of ids sorted by ComesBefore, which leaves no two rows tied. *)
OrderedIds(ids, order_by) ==
    SortSeq(SelectSeq([i \in Ids |-> i], LAMBDA i : i \in ids),
            LAMBDA a, b : ComesBefore(a, b, order_by))

Fetch(qs) == OrderedIds(qs.ids, qs.order_by)

(* queryset[:20] *)
FirstPage(rows) == SubSeq(rows, 1, Min(PAGE_SIZE, Len(rows)))

-----------------------------------------------------------------------------
(* The request: search() and the stages it calls, one action per step. *)

NoResponse == [status |-> 0, body |-> <<>>]

(* The queries search() sends to the database, by the method that sends    *)
(* them: results.exists() of _full_text_search, direct_matches.exists()    *)
(* of _fallback_search, full_text_results.exists() of _hybrid_search and   *)
(* the SELECT behind serializer.data.  _trigram_search sends none: its     *)
(* queryset is evaluated by whoever uses it.                               *)
DbQueries == {"full_text_search", "fallback_search", "hybrid_search", "serialize"}

NoFault == "none"

(* No method of views.py catches anything: an exception of the database    *)
(* unwinds every caller and ends the request.                              *)
Raise ==
    /\ response' = [status |-> 500, body |-> <<>>]
    /\ pc' = "done"
    /\ stack' = <<>>
    /\ UNCHANGED search_results

(* A stage returns its queryset to the caller on top of the stack. *)
Return(qs) ==
    /\ search_results' = qs
    /\ pc' = IF Head(stack) = "hybrid_search" THEN "hybrid_check" ELSE "apply_filters"
    /\ stack' = Tail(stack)

(* The literals 'full_text', 'trigram' and 'hybrid', and 'Trigram'. *)
str_full_text == <<102, 117, 108, 108, 95, 116, 101, 120, 116>>
str_trigram == <<116, 114, 105, 103, 114, 97, 109>>
str_hybrid == <<104, 121, 98, 114, 105, 100>>
str_Trigram == <<84, 114, 105, 103, 114, 97, 109>>

(* The dispatch that compares the hint without regard to letter case. *)
EntryStageIgnoringCase(search_type) ==
    IF LowerStr(search_type) = str_trigram THEN "trigram_search"
    ELSE IF LowerStr(search_type) = str_hybrid THEN "hybrid_search"
    ELSE "full_text_search"

(* The dispatch with the trigram literal misspelled. *)
EntryStageMisspelled(search_type) ==
    IF search_type = str_Trigram THEN "trigram_search"
    ELSE IF search_type = str_hybrid THEN "hybrid_search"
    ELSE "full_text_search"

(* The whole query taken for the Latin part. *)
EnglishPartWhole(query) == query

(* search(), line 78: the characters outside the Arabic block, in order. *)
EnglishPart(query) == SelectSeq(query, LAMBDA c : ~IsArabic(c))

(* search(), line 79: the characters of the Arabic block, in order. *)
ArabicPart(query) == SelectSeq(query, IsArabic)

(* search(), lines 81-86: the stage the hint selects. *)
EntryStage(search_type) ==
    IF search_type = str_trigram THEN "trigram_search"
    ELSE IF search_type = str_hybrid THEN "hybrid_search"
    ELSE "full_text_search"

(* search(), lines 70-86: validate q, split the scripts, pick the entry stage. *)
search ==
    /\ pc = "search"
    /\ LET query       == Strip(Get(params, "q", <<>>))
           search_type == Get(params, "search_type", str_full_text)
       IN  IF query = <<>>
           THEN /\ response' = [status |-> 400, body |-> <<>>]
                /\ pc' = "done"
                /\ UNCHANGED <<english_part, arabic_part, stack>>
           ELSE /\ english_part' = EnglishPart(query)
                /\ arabic_part' = ArabicPart(query)
                /\ stack' = <<"search">>
                /\ pc' = EntryStage(search_type)
                /\ UNCHANGED response
    /\ UNCHANGED <<database, params, search_results, calls>>

(* _full_text_search that goes on to the substring stage although the     *)
(* full-text query found rows.                                             *)
full_text_search_ignores_hit ==
    /\ pc = "full_text_search"
    /\ calls' = Append(calls, "FullText")
    /\ IF CombinedQuery(english_part, arabic_part) = <<>>
       THEN Return(NoneQS)
       ELSE /\ pc' = "fallback_search"
            /\ UNCHANGED <<stack, search_results>>
    /\ UNCHANGED <<database, params, english_part, arabic_part,
                   response>>

(* _full_text_search that takes a failed query for an empty result. *)
full_text_search_catches_error ==
    /\ pc = "full_text_search"
    /\ calls' = Append(calls, "FullText")
    /\ IF CombinedQuery(english_part, arabic_part) = <<>>
       THEN Return(NoneQS)
       ELSE IF db_fault # "full_text_search"
                 /\ Exists(FullTextResults(english_part, arabic_part))
            THEN Return(FullTextResults(english_part, arabic_part))
            ELSE /\ pc' = "fallback_search"
                 /\ UNCHANGED <<stack, search_results>>
    /\ UNCHANGED <<database, params, english_part,
                   arabic_part, response>>

(* _full_text_search *)
full_text_search ==
    /\ pc = "full_text_search"
    /\ calls' = Append(calls, "FullText")
    /\ IF CombinedQuery(english_part, arabic_part) = <<>>
       THEN Return(NoneQS) /\ UNCHANGED response
       ELSE IF db_fault = "full_text_search"
            THEN Raise
            ELSE IF Exists(FullTextResults(english_part, arabic_part))
                 THEN /\ Return(FullTextResults(english_part, arabic_part))
                      /\ UNCHANGED response
                 ELSE /\ pc' = "fallback_search"
                      /\ UNCHANGED <<stack, search_results, response>>
    /\ UNCHANGED <<database, params, english_part,
                   arabic_part>>

(* _fallback_search *)
fallback_search ==
    /\ pc = "fallback_search"
    /\ calls' = Append(calls, "FallbackSubstring")
    /\ IF db_fault = "fallback_search"
       THEN Raise
       ELSE IF Exists(DirectMatches(english_part, arabic_part))
            THEN /\ Return(DirectMatches(english_part, arabic_part))
                 /\ UNCHANGED response
            ELSE /\ pc' = "trigram_search"
                 /\ UNCHANGED <<stack, search_results, response>>
    /\ UNCHANGED <<database, params, english_part,
                   arabic_part>>

(* _trigram_search *)
trigram_search ==
    /\ pc = "trigram_search"
    /\ calls' = Append(calls, "Trigram")
    /\ Return(TrigramResults(english_part, arabic_part))
    /\ UNCHANGED <<database, params, english_part, arabic_part,
                   response>>

(* _hybrid_search, line 170: the call of _full_text_search. *)
hybrid_search ==
    /\ pc = "hybrid_search"
    /\ stack' = <<"hybrid_search">> \o stack
    /\ pc' = "full_text_search"
    /\ UNCHANGED <<database, params, english_part, arabic_part,
                   search_results, calls, response>>

(* _hybrid_search, lines 171-173: what it does with the returned queryset. *)
hybrid_check ==
    /\ pc = "hybrid_check"
    /\ IF db_fault = "hybrid_search"
       THEN Raise
       ELSE IF Exists(search_results)
            THEN Return(search_results) /\ UNCHANGED response
            ELSE /\ pc' = "trigram_search"
                 /\ UNCHANGED <<stack, search_results, response>>
    /\ UNCHANGED <<database, params, english_part,
                   arabic_part, calls>>

(* The filters applied to the first 20 rows of the cascade only. *)
filter_results_after_slice ==
    /\ pc = "apply_filters"
    /\ IF FilterError(params)
       THEN /\ response' = [status |-> 500, body |-> <<>>]
            /\ pc' = "done"
            /\ UNCHANGED search_results
       ELSE /\ search_results' =
                   [apply_filters(search_results, params) EXCEPT
                       !.ids = @ \cap Range(FirstPage(Fetch(search_results)))]
            /\ pc' = "respond"
            /\ UNCHANGED response
    /\ UNCHANGED <<database, params, stack, english_part,
                   arabic_part, calls>>

(* search(), line 88: the filters; an exception of int() ends the request. *)
filter_results ==
    /\ pc = "apply_filters"
    /\ IF FilterError(params)
       THEN /\ response' = [status |-> 500, body |-> <<>>]
            /\ pc' = "done"
            /\ UNCHANGED search_results
       ELSE /\ search_results' = apply_filters(search_results, params)
            /\ pc' = "respond"
            /\ UNCHANGED response
    /\ UNCHANGED <<database, params, stack, english_part,
                   arabic_part, calls>>

(* search(), lines 89-91: slice, serialize, respond. *)
respond ==
    /\ pc = "respond"
    /\ IF db_fault = "serialize"
       THEN Raise
       ELSE /\ response' = [status |-> 200,
                            body |-> FirstPage(Fetch(search_results))]
            /\ pc' = "done"
            /\ UNCHANGED <<stack, search_results>>
    /\ UNCHANGED <<database, params, english_part,
                   arabic_part, calls>>

Next ==
    \/ search
    \/ hybrid_search
    \/ full_text_search
    \/ fallback_search
    \/ trigram_search
    \/ hybrid_check
    \/ filter_results
    \/ respond

-----------------------------------------------------------------------------
(* Initial states: a catalog, the database's answers and one request. *)

MaxProducts == 2

(* "ab", "Ab", "ba", "b", "cc" and the Arabic words beh-teh, teh-beh. *)
str_ab == <<97, 98>>
str_Ab == <<65, 98>>
str_ba == <<98, 97>>
str_b == <<98>>
str_cc == <<99, 99>>
ar_bt == <<1576, 1578>>
ar_tb == <<1578, 1576>>
str_snacks == <<83, 110>>
str_dairy == <<68, 97>>
str_acme == <<65, 99>>

(* nutrition_facts of a row that has none. *)
NoFacts == [k \in {} |-> 0]

(* A Product row from its texts <<name_en, name_ar, description_en,       *)
(* description_ar>>; indexed tells whether its search_vector was filled.   *)
Product(texts, category, brand, nutrition_facts, indexed) ==
    LET row == [name_en |-> texts[1], name_ar |-> texts[2],
                description_en |-> texts[3], description_ar |-> texts[4],
                category |-> category, brand |-> brand,
                nutrition_facts |-> nutrition_facts]
    IN  [name_en |-> row.name_en, name_ar |-> row.name_ar,
         description_en |-> row.description_en,
         description_ar |-> row.description_ar,
         category |-> category, brand |-> brand,
         nutrition_facts |-> nutrition_facts,
         search_vector |-> IF indexed THEN ToTsVector(row) ELSE NullVector]

(* What the database computes for a row: sims = the trigram similarities  *)
(* of <<name_en, description_en, name_ar, description_ar>> to the parts,   *)
(* ranks = the SearchRank of <<final_query, the English tsquery alone, the *)
(* Arabic tsquery alone>>, all in thousandths.                             *)
Answers(sims, ranks) ==
    [name_en_sim |-> sims[1], desc_en_sim |-> sims[2],
     name_ar_sim |-> sims[3], desc_ar_sim |-> sims[4],
     rank |-> ranks[1], rank_en |-> ranks[2], rank_ar |-> ranks[3]]

(* All tables of up to n rows drawn from entries = <<row, answers>> pairs. *)
Tables(entries, n) == UNION {[1..k -> entries] : k \in 0..n}

InitWithFault(table, order, request, fault) ==
    /\ catalog = [i \in DOMAIN table |-> table[i][1]]
    /\ oracle = [i \in DOMAIN table |-> table[i][2]]
    /\ db_order = order
    /\ db_fault = fault
    /\ writes = <<>>
    /\ params = request
    /\ pc = "search"
    /\ stack = <<>>
    /\ english_part = <<>>
    /\ arabic_part = <<>>
    /\ search_results = NoneQS
    /\ calls = <<>>
    /\ response = NoResponse

(* A request the database answers without error. *)
InitWith(table, order, request) == InitWithFault(table, order, request, NoFault)

(* Requests: a function on the parameters that are present. *)
Request(q, search_type) ==
    [k \in {"q", "search_type"} |-> IF k = "q" THEN q ELSE search_type]

(* The cascade: rows whose title or only whose description holds the word, *)
(* indexed or not, with similarities that pass the threshold or do not.    *)
CascadeEntries ==
    {<<Product(t, str_snacks, str_acme, NoFacts, indexed),
       Answers(<<sim, 0, sim, 0>>, <<60, 60, 60>>)>> :
        t \in {<<str_Ab, ar_bt, str_ba, ar_tb>>, <<str_ba, ar_tb, str_ab, ar_bt>>},
        indexed \in BOOLEAN, sim \in {0, 300}}

CascadeQueries ==
    {<<>>, <<32>>, str_ab, <<32, 97, 98, 32>>, str_b, str_cc, ar_bt,
     str_ab \o ar_bt, str_cc \o <<32>> \o ar_bt}

(* 'full_text', 'trigram', 'hybrid', 'Trigram', 'fuzzy' and ''. *)
SearchTypes ==
    {str_full_text, str_trigram, str_hybrid, str_Trigram,
     <<102, 117, 122, 122, 121>>, <<>>}

CascadeRequests ==
    {Request(q, st) : q \in CascadeQueries, st \in SearchTypes}
        \cup {[k \in {"q"} |-> q] : q \in CascadeQueries}
        \cup {[k \in {"search_type"} |-> st] : st \in SearchTypes}

Init ==
    \E table \in Tables(CascadeEntries, MaxProducts) :
    \E order \in {"asc", "desc"} :
    \E request \in CascadeRequests :
        InitWith(table, order, request)

Spec == Init /\ [][Next]_vars

-----------------------------------------------------------------------------
(* Filtering and paging: rows that differ in category, nutrition facts and *)
(* rank, optionally followed by a batch of identical rows as the CSV       *)
(* import creates them, and requests that carry filter parameters.         *)

MaxFilterRows == 2
BulkRows == 20

str_100 == <<49, 48, 48>>
str_5 == <<53>>
str_abc == <<97, 98, 99>>
str_sn == <<115, 110>>
str_ac == <<97, 99>>

FilterEntry(category, nutrition_facts, rank) ==
    <<Product(<<str_Ab, ar_bt, str_ba, ar_tb>>, category, str_acme, nutrition_facts, TRUE),
      Answers(<<300, 0, 300, 0>>, <<rank, rank, rank>>)>>

FilterEntries ==
    {FilterEntry(str_snacks, [calories |-> 50, protein_g |-> 5], 80),
     FilterEntry(str_snacks, [calories |-> 150, protein |-> 10], 60),
     FilterEntry(str_dairy, [calories |-> 50, protein |-> 10], 80),
     FilterEntry(str_dairy, NoFacts, 60)}

BulkEntry == FilterEntry(str_snacks, [calories |-> 50, protein_g |-> 5], 80)

FilterTables ==
    Tables(FilterEntries, MaxFilterRows)
        \cup {t \o [k \in 1..BulkRows |-> BulkEntry] :
                 t \in Tables(FilterEntries, MaxFilterRows - 1)}

ParamChoices ==
    [category     : {<<>>, str_sn},
     brand        : {<<>>, str_ac},
     max_calories : {<<>>, str_100, str_abc},
     min_protein  : {<<>>, str_5, str_abc},
     q            : {str_ab, str_b},
     search_type  : {<<>>, str_hybrid, str_trigram}]

(* An empty choice stands for a parameter the request does not carry; the  *)
(* query "b", which only the substring stage answers, comes unhinted.      *)
FilterRequests ==
    {[k \in {k \in DOMAIN c : c[k] # <<>>} |-> c[k]] :
        c \in {c \in ParamChoices : c.q = str_b => c.search_type = <<>>}}

InitFilter ==
    \E table \in FilterTables :
    \E order \in {"asc", "desc"} :
    \E request \in FilterRequests :
        InitWith(table, order, request)

SpecFilter == InitFilter /\ [][Next]_vars

-----------------------------------------------------------------------------
(* Scoring: one or two rows whose similarities sit on, between and above   *)
(* the two thresholds, asked with segments of every length up to           *)
(* MaxSegmentLen; and indexed rows that both sub-queries of a mixed query  *)
(* match, with the ranks the database gives.                               *)

MaxSegmentLen == 3

Repeat(c, k) == [i \in 1..k |-> c]

(* Runs of "c" and of the Arabic letter theh: no row contains either. *)
SegmentQueries ==
    {Repeat(99, m) \o Repeat(1579, n) : m, n \in 0..MaxSegmentLen} \ {<<>>}

NameSims == {0, 50, 100, 102}
DescSims == {0, 100, 200, 204}

ScoreEntry(sims, ranks) ==
    <<Product(<<str_Ab, ar_bt, str_ba, ar_tb>>, str_snacks, str_acme, NoFacts, TRUE),
      Answers(sims, ranks)>>

SimEntries ==
    {ScoreEntry(<<ne, de, na, da>>, <<60, 60, 60>>) :
        ne \in NameSims, de \in DescSims, na \in NameSims, da \in DescSims}

(* Second rows: the same similarity in both languages. *)
SimEntriesBoth ==
    {ScoreEntry(<<n, d, n, d>>, <<60, 60, 60>>) : n \in NameSims, d \in DescSims}

SimTables ==
    Tables(SimEntries, 1) \cup {<<e1, e2>> : e1 \in SimEntries, e2 \in SimEntriesBoth}

SimRequests ==
    {Request(q, str_trigram) : q \in SegmentQueries}
        \cup {Request(q, st) : q \in {str_cc, str_cc \o ar_bt},
                               st \in {str_full_text, str_hybrid}}

(* The rank of the OR-combined query is ts_rank's to choose: it may be the *)
(* larger sub-query rank, or, as ts_rank computes it, their mean.          *)
RankEntries ==
    {ScoreEntry(<<300, 0, 300, 0>>, ranks) :
        ranks \in {<<80, 80, 60>>, <<70, 80, 60>>, <<60, 60, 60>>}}

RankRequests ==
    {Request(q, st) : q \in {str_ab, ar_bt, str_ab \o ar_bt},
                      st \in {str_full_text, str_hybrid}}

InitScore ==
    \E order \in {"asc", "desc"} :
        \/ \E table \in SimTables : \E request \in SimRequests :
               InitWith(table, order, request)
        \/ \E table \in Tables(RankEntries, 2) : \E request \in RankRequests :
               InitWith(table, order, request)

SpecScore == InitScore /\ [][Next]_vars

-----------------------------------------------------------------------------
(* Segmentation and tokenisation: every query of up to MaxQueryLen         *)
(* characters over a Latin letter, the space, the single quote, an Arabic  *)
(* letter and the first code point after the Arabic block, against an      *)
(* empty catalog, an indexed row and a row whose vector was never filled.  *)

MaxQueryLen == 4

(* "a", " ", "'", beh (U+0628) and U+0700. *)
QueryAlphabet == {97, SP, QUOTE, 1576, ARABIC_LAST + 1}

Strings(alphabet, n) == UNION {[1..k -> alphabet] : k \in 0..n}

str_aa == <<97, 97>>
ar_bb == <<1576, 1576>>

SegmentEntry(indexed, sim) ==
    <<Product(<<str_aa, ar_bb, str_aa, ar_bb>>, str_snacks, str_acme, NoFacts, indexed),
      Answers(<<sim, 0, sim, 0>>, <<60, 60, 60>>)>>

SegmentTables == {<<>>, <<SegmentEntry(TRUE, 300)>>, <<SegmentEntry(FALSE, 0)>>}

(* With every hint, and without the q parameter. *)
SegmentRequests ==
    {Request(q, st) : q \in Strings(QueryAlphabet, MaxQueryLen),
                      st \in {str_full_text, str_trigram, str_hybrid}}
        \cup {[k \in {"search_type"} |-> st] :
                  st \in {str_full_text, str_trigram, str_hybrid}}

InitSegment ==
    \E table \in SegmentTables :
    \E request \in SegmentRequests :
        InitWith(table, "asc", request)

SpecSegment == InitSegment /\ [][Next]_vars

-----------------------------------------------------------------------------
(* Database errors: the cascade's catalogs, asked while one of the queries *)
(* of the request, or none, fails.                                         *)

FaultRequests ==
    {Request(q, st) : q \in {str_ab, str_b, str_cc, ar_bt, str_cc \o ar_bt},
                      st \in {str_full_text, str_trigram, str_hybrid}}

InitFault ==
    \E table \in Tables(CascadeEntries, MaxProducts) :
    \E order \in {"asc", "desc"} :
    \E request \in FaultRequests :
    \E fault \in DbQueries \cup {NoFault} :
        InitWithFault(table, order, request, fault)

SpecFault == InitFault /\ [][Next]_vars

-----------------------------------------------------------------------------
(* Writing the catalog: the CSV import command and Product.save(), then a  *)
(* search request on what they stored.                                     *)

MaxCsvRows == 2
MaxWrites == 2

str_10 == <<49, 48>>

(* The fields models.py declares on Product, the primary key included. *)
ProductFields ==
    {"id", "name_en", "name_ar", "description_en", "description_ar",
     "category", "brand", "search_vector", "nutrition_facts"}

(* The fields update_search_vectors passes to QuerySet.update(). *)
HandlerFields == {"search_vector_en", "search_vector_ar"}

(* QuerySet.update() raises FieldDoesNotExist for a name that is no field  *)
(* of the model; otherwise the handler stores the vectors.                 *)
update_search_vectors ==
    IF HandlerFields \subseteq ProductFields THEN "updated" ELSE "raised"

(* Rows of the CSV file: the columns the command reads, with the           *)
(* translations smart_translate gives for the name and the description.    *)
CsvRows ==
    {[Food_Item |-> str_Ab, Category |-> str_snacks,
      name_ar |-> ar_bt, desc_ar |-> ar_tb,
      Calories |-> 50, Protein |-> protein, Carbohydrates |-> 0, Fat |-> 0,
      Fiber |-> 0, Sugars |-> 0, Sodium |-> 0, Cholesterol |-> 0,
      Water_Intake |-> 0] : protein \in {5, 10}}

CsvFiles == UNION {[1..n -> CsvRows] : n \in 1..MaxCsvRows}

(* handle(), lines 135-145 *)
nutrition_facts_of(row) ==
    [calories |-> row.Calories, protein_g |-> row.Protein,
     carbs_g |-> row.Carbohydrates, fat_g |-> row.Fat, fiber_g |-> row.Fiber,
     sugar_g |-> row.Sugars, sodium_mg |-> row.Sodium,
     cholesterol_mg |-> row.Cholesterol, water_ml |-> row.Water_Intake]

(* handle(), lines 130-155: desc_en = f"{name_en} ({cat_name_en})"; the    *)
(* brand is the food item when the file has no Brand column.               *)
ProductOf(row, indexed) ==
    Product(<<row.Food_Item, row.name_ar,
              row.Food_Item \o <<SP, 40>> \o row.Category \o <<41>>, row.desc_ar>>,
            row.Category, row.Food_Item, nutrition_facts_of(row), indexed)

(* What the database will compute for a stored row on the coming request. *)
StoredAnswers == Answers(<<300, 0, 300, 0>>, <<60, 60, 60>>)

Written(id, by, protein, signal) ==
    [id |-> id, by |-> by, protein |-> protein, signal |-> signal]

(* Command.handle: every row of the file becomes a Product, written with   *)
(* bulk_create, which sends no post_save.  search_vector is filled by a    *)
(* database trigger if the database has one (models.py:31); no code of the *)
(* repository fills it.                                                    *)
handle ==
    /\ pc = "idle"
    /\ \E file \in CsvFiles : \E trigger \in BOOLEAN :
           /\ Len(writes) + Len(file) <= MaxWrites
           /\ catalog' = catalog \o [k \in DOMAIN file |-> ProductOf(file[k], trigger)]
           /\ oracle' = oracle \o [k \in DOMAIN file |-> StoredAnswers]
           /\ writes' = writes \o [k \in DOMAIN file |->
                  Written(Len(catalog) + k, "bulk_create", file[k].Protein, "not_sent")]
    /\ UNCHANGED <<db_order, db_fault, params, pc, stack, english_part,
                   arabic_part, search_results, calls, response>>

(* Product.save(): the row is inserted, then post_save runs the handler if *)
(* signals.py was imported.  The handler's exception leaves save() after   *)
(* the INSERT; the row stays unless the caller's transaction rolls back.   *)
save ==
    /\ pc = "idle"
    /\ Len(writes) < MaxWrites
    /\ \E protein \in {10} : \E trigger, connected, atomic \in BOOLEAN :
           LET signal == IF connected THEN update_search_vectors ELSE "not_connected"
               stored == ~(signal = "raised" /\ atomic)
               row    == Product(<<str_Ab, ar_bt, str_ba, ar_tb>>, str_snacks, str_acme,
                                 [calories |-> 50, protein |-> protein], trigger)
           IN  /\ catalog' = IF stored THEN Append(catalog, row) ELSE catalog
               /\ oracle' = IF stored THEN Append(oracle, StoredAnswers) ELSE oracle
               /\ writes' = Append(writes,
                      Written(IF stored THEN Len(catalog) + 1 ELSE 0, "save",
                              protein, signal))
    /\ UNCHANGED <<db_order, db_fault, params, pc, stack, english_part,
                   arabic_part, search_results, calls, response>>

(* The search request arrives. *)
receive ==
    /\ pc = "idle"
    /\ pc' = "search"
    /\ UNCHANGED <<database, params, stack, english_part, arabic_part,
                   search_results, calls, response>>

IngestRequests ==
    {[k \in {k \in DOMAIN c : c[k] # <<>>} |-> c[k]] :
        c \in [q           : {str_ab, str_b},
               search_type : {<<>>, str_hybrid, str_trigram},
               min_protein : {<<>>, str_5, str_10}]}

InitIngest ==
    \E order \in {"asc", "desc"} :
    \E request \in IngestRequests :
        /\ catalog = <<>>
        /\ oracle = <<>>
        /\ db_order = order
        /\ db_fault = NoFault
        /\ writes = <<>>
        /\ params = request
        /\ pc = "idle"
        /\ stack = <<>>
        /\ english_part = <<>>
        /\ arabic_part = <<>>
        /\ search_results = NoneQS
        /\ calls = <<>>
        /\ response = NoResponse

NextIngest ==
    \/ handle
    \/ save
    \/ receive
    \/ Next

SpecIngest == InitIngest /\ [][NextIngest]_vars

-----------------------------------------------------------------------------
(* Vocabulary of the properties. *)

Hint == Get(params, "search_type", str_full_text)

DefaultHint == Hint # str_trigram /\ Hint # str_hybrid

Ran(stage) == \E k \in DOMAIN calls : calls[k] = stage

Runs(stage) == Cardinality({k \in DOMAIN calls : calls[k] = stage})

(* The query passed validation and was split. *)
Segmented == english_part # <<>> \/ arabic_part # <<>>

(* The cascade has handed its queryset back to search(). *)
CascadeDone == pc = "apply_filters"

(* Rows with an indexed word that starts with a query word of two or more *)
(* characters, letter case ignored.                                        *)
FullTextHitIds ==
    {i \in Ids : \E l \in catalog[i].search_vector :
        \E w \in Range(Split(RemoveQuotes(english_part)))
                     \cup Range(Split(RemoveQuotes(arabic_part))) :
            Len(w) >= 2 /\ IsPrefix(LowerStr(w), l)}

FullTextHit == FullTextHitIds # {}

(* part occurs in title, letter case ignored. *)
OccursIn(part, title) ==
    /\ part # <<>>
    /\ \E off \in 0..(Len(title) - Len(part)) :
           \A k \in 1..Len(part) : Lower(title[off + k]) = Lower(part[k])

TitleHitIds ==
    {i \in Ids : \/ OccursIn(english_part, catalog[i].name_en)
                 \/ OccursIn(arabic_part, catalog[i].name_ar)}

-----------------------------------------------------------------------------
(* C1: under the hybrid hint the FallbackSubstring stage is never run, and *)
(* when FullText yields nothing the cascade ends with Trigram's results.   *)
C1_HybridSkipsFallback ==
    Hint = str_hybrid =>
        /\ ~Ran("FallbackSubstring")
        /\ (CascadeDone /\ ~FullTextHit =>
                search_results = TrigramResults(english_part, arabic_part))

(* C2: for every hint, each of FullText, FallbackSubstring and Trigram is  *)
(* run at most once, so a request runs at most three stages.               *)
C2_EachStageAtMostOnce ==
    /\ Runs("FullText") <= 1
    /\ Runs("FallbackSubstring") <= 1
    /\ Runs("Trigram") <= 1
    /\ Len(calls) <= 3

(* C3: under the default hint, when FullText finds a row the cascade ends  *)
(* with exactly FullText's rows, ranked, and no other stage is invoked.    *)
C3_FullTextHitEndsCascade ==
    DefaultHint /\ FullTextHit =>
        /\ ~Ran("FallbackSubstring")
        /\ ~Ran("Trigram")
        /\ (CascadeDone =>
                /\ calls = <<"FullText">>
                /\ search_results.order_by = "-rank"
                /\ search_results.ids = FullTextHitIds)

C3_Witness ==
    /\ DefaultHint
    /\ FullTextHit
    /\ pc = "done"
    /\ response.status = 200
    /\ response.body # <<>>
    /\ TitleHitIds # {}

(* C4: under the default hint, when FullText finds nothing the substring   *)
(* stage runs next and looks for the parts in the titles only, letter case *)
(* ignored; if it finds a row the cascade ends with its rows and Trigram   *)
(* is not run; Trigram runs exactly when both stages found nothing.        *)
C4_FallbackThenTrigram ==
    DefaultHint /\ CascadeDone =>
        /\ (~FullTextHit => Len(calls) >= 2 /\ calls[1] = "FullText"
                            /\ calls[2] = "FallbackSubstring")
        /\ (~FullTextHit /\ TitleHitIds # {} =>
                calls = <<"FullText", "FallbackSubstring">>
                /\ search_results.ids = TitleHitIds)
        /\ (Ran("Trigram") <=> ~FullTextHit /\ TitleHitIds = {})

C4_Witness ==
    /\ DefaultHint
    /\ pc = "done"
    /\ calls = <<"FullText", "FallbackSubstring">>
    /\ response.status = 200
    /\ Len(response.body) = 1
    /\ Len(catalog) = 2
    /\ \E i \in Ids : IContains(catalog[i].description_en, english_part)
                      /\ ~IContains(catalog[i].name_en, english_part)
    /\ \E i \in Ids : catalog[i].name_en # LowerStr(catalog[i].name_en)
                      /\ IContains(catalog[i].name_en, english_part)

(* C5: under the trigram hint FullText and FallbackSubstring are never     *)
(* run; Trigram runs once and the request ends with its rows, even when    *)
(* there are none.                                                         *)
C5_TrigramOnly ==
    Hint = str_trigram =>
        /\ ~Ran("FullText")
        /\ ~Ran("FallbackSubstring")
        /\ (pc \in {"apply_filters", "respond", "done"} /\ Segmented =>
                calls = <<"Trigram">>)
        /\ (CascadeDone =>
                search_results.ids =
                    {i \in Ids : BestScore(i, english_part, arabic_part)
                                     > MinThreshold(english_part, arabic_part)})
        /\ (pc = "done" /\ Segmented => response.status = 200)

C5_Witness ==
    /\ Hint = str_trigram
    /\ pc = "done"
    /\ calls = <<"Trigram">>
    /\ response = [status |-> 200, body |-> <<>>]
    /\ catalog # <<>>
    /\ FullTextHit
    /\ TitleHitIds # {}

(* The request without the numeric filter parameters int() rejects. *)
Malformed(key) ==
    Param(params, key) # <<>> /\ ~ParseInt(Param(params, key)).ok

WithoutMalformed ==
    [k \in {k \in DOMAIN params :
               ~(k \in {"max_calories", "min_protein"} /\ Malformed(k))}
        |-> params[k]]

(* C6: a max_calories or min_protein value that is no number is treated as *)
(* absent: the request succeeds with the result it would have without it.  *)
C6_MalformedFilterIgnored ==
    pc = "done" /\ Segmented
        /\ (Malformed("max_calories") \/ Malformed("min_protein")) =>
            response = [status |-> 200,
                        body |-> FirstPage(Fetch(apply_filters(search_results,
                                                               WithoutMalformed)))]

(* C7: the response holds min(20, n) of the n rows that pass the filters,  *)
(* the best scored ones, by descending score and, for equal scores, by     *)
(* ascending id.                                                           *)
C7_TopPageByScoreThenId ==
    pc = "done" /\ response.status = 200 =>
        LET body     == response.body
            passed   == search_results.ids
            score(i) == RowScore(i, search_results.order_by)
            before(a, b) == score(a) > score(b) \/ (score(a) = score(b) /\ a < b)
        IN  /\ Len(body) = Min(20, Cardinality(passed))
            /\ Range(body) \subseteq passed
            /\ \A j, k \in DOMAIN body : j < k => before(body[j], body[k])
            /\ \A i \in passed \ Range(body) :
                   \A j \in DOMAIN body : before(body[j], i)

-----------------------------------------------------------------------------
(* Scores as the properties state them, in thousandths. *)

BothSegments == english_part # <<>> /\ arabic_part # <<>>

(* The queryset in hand is the Trigram stage's. *)
TrigramPath ==
    /\ pc \in {"apply_filters", "respond", "done"}
    /\ calls # <<>>
    /\ calls[Len(calls)] = "Trigram"

(* The queryset in hand is the FullText stage's. *)
FullTextPath ==
    /\ pc \in {"apply_filters", "respond", "done"}
    /\ calls # <<>>
    /\ calls[Len(calls)] = "FullText"

EnglishScore(i) == Max(oracle[i].name_en_sim, oracle[i].desc_en_sim \div 2)

ArabicScore(i) == Max(oracle[i].name_ar_sim, oracle[i].desc_ar_sim \div 2)

ExpectedScore(i) ==
    IF BothSegments THEN Max(EnglishScore(i), ArabicScore(i))
    ELSE IF english_part # <<>> THEN EnglishScore(i) ELSE ArabicScore(i)

SegmentThreshold(part) == IF Len(part) <= 2 THEN 50 ELSE 100

EffectiveThreshold ==
    IF BothSegments
    THEN Min(SegmentThreshold(english_part), SegmentThreshold(arabic_part))
    ELSE IF english_part # <<>> THEN SegmentThreshold(english_part)
         ELSE SegmentThreshold(arabic_part)

NoDuplicates(seq) == \A j, k \in DOMAIN seq : seq[j] = seq[k] => j = k

Occurrences(seq, x) == Cardinality({j \in DOMAIN seq : seq[j] = x})

(* C8: the Trigram threshold is 0.05 for a segment of at most 2 characters *)
(* and 0.1 for a longer one, the smaller of the two when both segments are *)
(* present, and a row is admitted exactly when its best score is strictly  *)
(* greater than it.                                                        *)
C8_TrigramThreshold ==
    TrigramPath /\ pc = "apply_filters" =>
        search_results.ids =
            {i \in Ids : BestScore(i, english_part, arabic_part)
                             > EffectiveThreshold}

C8_Witness ==
    /\ TrigramPath
    /\ pc = "apply_filters"
    /\ Len(english_part) = 2
    /\ Len(arabic_part) = 3
    /\ \E i \in Ids : BestScore(i, english_part, arabic_part) = 50
                      /\ i \notin search_results.ids
    /\ \E i \in Ids : BestScore(i, english_part, arabic_part) = 100
                      /\ i \in search_results.ids

(* C9: a row's Trigram score is, per segment present, the larger of its    *)
(* title similarity and half its description similarity, and with both     *)
(* segments the larger of the two (not their sum); the rows come by this   *)
(* score, highest first.                                                   *)
C9_TrigramScore ==
    TrigramPath =>
        /\ \A i \in Ids :
               RowScore(i, search_results.order_by) = ExpectedScore(i)
        /\ (pc = "done" /\ response.status = 200 =>
                \A j, k \in DOMAIN response.body :
                    j < k => ExpectedScore(response.body[j])
                                 >= ExpectedScore(response.body[k]))

C9_Witness ==
    /\ TrigramPath
    /\ pc = "done"
    /\ BothSegments
    /\ Len(response.body) = 2
    /\ ExpectedScore(response.body[1]) > ExpectedScore(response.body[2])
    /\ response.body[1] > response.body[2]
    /\ oracle[response.body[1]].desc_ar_sim \div 2
           > oracle[response.body[1]].name_ar_sim
    /\ ArabicScore(response.body[2]) > EnglishScore(response.body[2])
    /\ EnglishScore(response.body[2]) > 0

(* A row the English and the Arabic tsquery each match on their own. *)
MatchesBothQueries(i) ==
    /\ BothSegments
    /\ VectorMatches(catalog[i].search_vector, prepare_tsquery(english_part, "english"))
    /\ VectorMatches(catalog[i].search_vector, prepare_tsquery(arabic_part, "simple"))

(* C10 as stated: a row that matches through both sub-queries appears once *)
(* with the maximum of the scores the sub-queries gave it, in every stage, *)
(* and no response holds an id twice.                                      *)
C10_MaxOfSubQueryScores ==
    /\ (pc = "done" /\ response.status = 200 => NoDuplicates(response.body))
    /\ (TrigramPath /\ BothSegments =>
            \A i \in search_results.ids :
                RowScore(i, search_results.order_by)
                    = Max(EnglishScore(i), ArabicScore(i)))
    /\ (FullTextPath =>
            \A i \in search_results.ids :
                MatchesBothQueries(i) =>
                    RowScore(i, search_results.order_by)
                        = Max(oracle[i].rank_en, oracle[i].rank_ar))

(* C10 amended: a row that matches through both sub-queries appears once;  *)
(* its Trigram score is the maximum, not the sum, of the two segments'     *)
(* scores; no response of any stage holds an id twice.  (Its FullText      *)
(* score is the one rank of the OR-combined query.)                        *)
C10_OnceWithTrigramMax ==
    /\ (pc = "done" /\ response.status = 200 =>
            /\ NoDuplicates(response.body)
            /\ (Cardinality(search_results.ids) <= 20 =>
                    \A i \in search_results.ids :
                        Occurrences(response.body, i) = 1))
    /\ (TrigramPath /\ BothSegments =>
            \A i \in search_results.ids :
                RowScore(i, search_results.order_by)
                    = Max(EnglishScore(i), ArabicScore(i)))

C10_Witness ==
    /\ TrigramPath
    /\ pc = "done"
    /\ BothSegments
    /\ \E i \in Range(response.body) :
           /\ EnglishScore(i) > EffectiveThreshold
           /\ ArabicScore(i) > EnglishScore(i)
           /\ Occurrences(response.body, i) = 1

-----------------------------------------------------------------------------
(* The trimmed query of the request. *)
Query == Strip(Param(params, "q"))

(* Arabic words with spaces between them and no other character. *)
ArabicWords(s) ==
    /\ \A k \in DOMAIN s : IsArabic(s[k]) \/ IsSpace(s[k])
    /\ \E k \in DOMAIN s : IsSpace(s[k])
    /\ \E k \in DOMAIN s : IsArabic(s[k])

(* C11: a query of Arabic words separated by spaces keeps its spaces in    *)
(* the Arabic part and has an empty Latin part, so the stages build no     *)
(* Latin tsquery, no Latin substring condition and no Latin similarity.    *)
C11_SpacesStayWithArabic ==
    Segmented /\ ArabicWords(Query) =>
        /\ arabic_part = Query
        /\ english_part = <<>>
        /\ CombinedQuery(english_part, arabic_part)
               = <<prepare_tsquery(arabic_part, "simple")>>
        /\ \A i \in Ids :
               SimilarityValues(i, english_part, arabic_part)
                   = <<oracle[i].name_ar_sim, Discount(oracle[i].desc_ar_sim)>>

-----------------------------------------------------------------------------
(* Token queries as the properties state them. *)

(* A token without its leading and trailing quote characters. *)
RECURSIVE TrimQuotes(_)
TrimQuotes(w) ==
    IF w # <<>> /\ ~NotQuote(Head(w)) THEN TrimQuotes(Tail(w))
    ELSE IF w # <<>> /\ ~NotQuote(w[Len(w)])
         THEN TrimQuotes(SubSeq(w, 1, Len(w) - 1))
         ELSE w

(* The prefix terms of a segment when clean(token) is what is left of a    *)
(* whitespace-separated token: one term per cleaned token of two or more   *)
(* characters.                                                             *)
TermsOf(part, config, clean(_)) ==
    {[prefix |-> clean(t), config |-> config] :
        t \in {t \in Range(Split(part)) : Len(clean(t)) >= 2}}

Configs == <<"english", "simple">>

SegmentOf(config) == IF config = "english" THEN english_part ELSE arabic_part

OtherConfig(config) == IF config = "english" THEN "simple" ELSE "english"

(* What C12 says of the segment of one configuration once FullText has     *)
(* built its query, with clean as the treatment of quotes in a token.      *)
TokenQueryIs(config, clean(_)) ==
    LET part    == SegmentOf(config)
        other   == SegmentOf(OtherConfig(config))
        tsquery == prepare_tsquery(part, config)
    IN  part # <<>> =>
            /\ tsquery = TermsOf(part, config, clean)
            /\ (TermsOf(part, config, clean) = {} =>
                    /\ tsquery = EmptySearchQuery
                    /\ \A i \in Ids : ~VectorMatches(catalog[i].search_vector, tsquery)
                    /\ (other # <<>> =>
                            FinalQuery(english_part, arabic_part)
                                = prepare_tsquery(other, OtherConfig(config)))
                    /\ (pc = "done" => response.status = 200))

(* C12 as stated: the token query of a segment is the OR of one prefix     *)
(* term per whitespace-separated token, each token with its leading and    *)
(* trailing quotes stripped and tokens under 2 characters dropped; with no *)
(* token left it is the empty query, which matches no row, raises no       *)
(* error and leaves the other segment's query unchanged under OR.          *)
C12_EdgeQuotesStripped ==
    Ran("FullText") =>
        \A k \in DOMAIN Configs : TokenQueryIs(Configs[k], TrimQuotes)

(* C12 amended: as above, but every quote character of a token is removed, *)
(* the ones inside it too; and the rows FullText returns are the ones an   *)
(* indexed word of which starts with one of the terms.                     *)
C12_AllQuotesRemoved ==
    Ran("FullText") =>
        /\ \A k \in DOMAIN Configs : TokenQueryIs(Configs[k], RemoveQuotes)
        /\ (calls = <<"FullText">> /\ CascadeDone =>
                search_results.ids =
                    {i \in Ids : \E l \in catalog[i].search_vector :
                        \E t \in TermsOf(english_part, "english", RemoveQuotes)
                                    \cup TermsOf(arabic_part, "simple", RemoveQuotes) :
                            IsPrefix(LowerStr(t.prefix), l)})

C12_Witness ==
    /\ pc = "done"
    /\ calls = <<"FullText">>
    /\ response.status = 200
    /\ response.body # <<>>
    /\ \E k \in 2..(Len(english_part) - 1) : english_part[k] = QUOTE
    /\ arabic_part # <<>>
    /\ prepare_tsquery(arabic_part, "simple") = EmptySearchQuery

-----------------------------------------------------------------------------
(* C13: the filters do not reorder: the filtered rows, in order, are the   *)
(* cascade's rows in order with the rejected ones left out; and the cut to *)
(* 20 comes after the filters: the response is the first 20 of the         *)
(* filtered rows.                                                          *)
C13_FilterThenTruncate ==
    [][/\ (pc = "apply_filters" /\ pc' = "respond" =>
              LET passed == apply_filters(search_results, params).ids
              IN  Fetch(search_results')
                      = SelectSeq(Fetch(search_results), LAMBDA i : i \in passed))
       /\ (pc = "respond" /\ pc' = "done" =>
              LET rows == Fetch(search_results)
              IN  response'.body = SubSeq(rows, 1, Min(20, Len(rows))))]_vars

(* Twenty-one candidates of equal rank, the first of which the category    *)
(* filter rejects: the response holds the rows 2 to 21.                    *)
C13_Witness ==
    /\ pc = "done"
    /\ response.status = 200
    /\ Len(catalog) = 21
    /\ db_order = "asc"
    /\ \A i \in Ids : oracle[i].rank = oracle[1].rank
    /\ calls = <<"FullText">>
    /\ Param(params, "category") # <<>>
    /\ ~IContains(catalog[1].category, Param(params, "category"))
    /\ response.body = [k \in 1..20 |-> k + 1]

-----------------------------------------------------------------------------
(* The request failed: an error status and no rows. *)
Failed == pc = "done" /\ response = [status |-> 500, body |-> <<>>]

(* No row passes the Trigram threshold. *)
NoTrigramHit ==
    \A i \in Ids : ~(BestScore(i, english_part, arabic_part) > EffectiveThreshold)

(* C14: a database error in a stage ends the request as a failure, with no *)
(* later stage run; a stage is followed by another one only when it ended  *)
(* without error and without rows; without an error the request succeeds.  *)
C14_ErrorsPropagate ==
    /\ (db_fault = "full_text_search" /\ Ran("FullText") =>
            Failed /\ calls = <<"FullText">>)
    /\ (db_fault = "fallback_search" /\ Ran("FallbackSubstring") =>
            Failed /\ calls = <<"FullText", "FallbackSubstring">>)
    /\ (db_fault = "hybrid_search" /\ Hint = str_hybrid =>
            /\ pc \notin {"apply_filters", "respond"}
            /\ Runs("Trigram") <= 1
            /\ (pc = "done" => Failed))
    /\ (db_fault = "serialize" /\ pc = "done" => Failed)
    /\ (db_fault = NoFault /\ pc = "done" => response.status = 200)
    /\ \A k \in 2..Len(calls) :
           /\ calls[k - 1] = "FullText" =>
                  /\ calls[k] = "FallbackSubstring"
                  /\ db_fault # "full_text_search"
                  /\ ~FullTextHit
           /\ calls[k - 1] = "FallbackSubstring" =>
                  /\ calls[k] = "Trigram"
                  /\ db_fault # "fallback_search"
                  /\ TitleHitIds = {}
           /\ calls[k - 1] = "Trigram" =>
                  /\ calls[k] = "Trigram"
                  /\ Hint = str_hybrid
                  /\ db_fault # "hybrid_search"
                  /\ NoTrigramHit

(* The substring query fails on a catalog in which Trigram would have      *)
(* found a row.                                                            *)
C14_Witness ==
    /\ Failed
    /\ db_fault = "fallback_search"
    /\ calls = <<"FullText", "FallbackSubstring">>
    /\ ~NoTrigramHit
    /\ TitleHitIds # {}

-----------------------------------------------------------------------------
(* Nothing but whitespace, or nothing at all. *)
Blank(s) == \A k \in DOMAIN s : IsSpace(s[k])

(* C15: a query that is empty or only whitespace is answered with status   *)
(* 400 and no rows; its parts are never computed and no stage is invoked;  *)
(* and no other query is answered with 400.                                *)
C15_BlankQueryRejected ==
    /\ (Blank(Param(params, "q")) =>
            /\ pc \in {"search", "done"}
            /\ calls = <<>>
            /\ english_part = <<>>
            /\ arabic_part = <<>>
            /\ search_results = NoneQS
            /\ (pc = "done" => response = [status |-> 400, body |-> <<>>]))
    /\ (response.status = 400 => Blank(Param(params, "q")))

C15_Witness ==
    /\ pc = "done"
    /\ response.status = 400
    /\ Len(Param(params, "q")) >= 2
    /\ Hint = str_trigram
    /\ catalog # <<>>

-----------------------------------------------------------------------------
FilterKeys == <<"category", "brand", "max_calories", "min_protein">>

(* The orders in which the four filters can be taken. *)
FilterOrders ==
    {[k \in DOMAIN FilterKeys |-> FilterKeys[f[k]]] :
        f \in {f \in [DOMAIN FilterKeys -> DOMAIN FilterKeys] :
                  \A j, k \in DOMAIN FilterKeys : f[j] = f[k] => j = k}}

(* The rows of qs that the filter of one parameter lets through. *)
PassedBy(qs, key) == apply_filter(qs, params, key).ids

(* C16: the filters are conjunctive and commute: taken in any order they   *)
(* leave the rows the code's order leaves, which are the candidates that   *)
(* every filter present lets through on its own.                           *)
C16_FiltersCommute ==
    [][pc = "apply_filters" /\ pc' = "respond" =>
          /\ \A keys \in FilterOrders :
                 ApplyInOrder(search_results, params, keys) = search_results'
          /\ search_results'.ids =
                 {i \in search_results.ids :
                     \A k \in DOMAIN FilterKeys :
                         i \in PassedBy(search_results, FilterKeys[k])}]_vars

(* Two filters present; a row survives both and another one passes the     *)
(* calories filter but not the category filter.                            *)
C16_Witness ==
    /\ pc = "done"
    /\ response.status = 200
    /\ response.body # <<>>
    /\ Param(params, "category") # <<>>
    /\ Param(params, "max_calories") # <<>>
    /\ \E i \in Ids \ search_results.ids :
           /\ ~IContains(catalog[i].category, Param(params, "category"))
           /\ HasFact(i, "calories")
           /\ catalog[i].nutrition_facts["calories"]
                  <= ParseInt(Param(params, "max_calories")).value

-----------------------------------------------------------------------------
(* No character of s lies in U+0600..U+06FF. *)
NoArabicCodePoint(s) == \A k \in DOMAIN s : s[k] < 1536 \/ s[k] > 1791

(* C17: for a query without a code point in U+0600..U+06FF the Arabic part *)
(* is empty, and the stages build the Latin tsquery, the Latin title       *)
(* condition and the Latin similarities only.                              *)
C17_NoArabicNothingArabic ==
    NoArabicCodePoint(Param(params, "q")) =>
        /\ arabic_part = <<>>
        /\ (Ran("FullText") =>
                /\ CombinedQuery(english_part, arabic_part)
                       = <<prepare_tsquery(english_part, "english")>>
                /\ \A t \in FinalQuery(english_part, arabic_part) :
                       t.config = "english")
        /\ (Ran("FallbackSubstring") =>
                DirectMatches(english_part, arabic_part).ids
                    = {i \in Ids : IContains(catalog[i].name_en, english_part)})
        /\ (Ran("Trigram") =>
                /\ \A i \in Ids :
                       SimilarityValues(i, english_part, arabic_part)
                           = <<oracle[i].name_en_sim,
                               Discount(oracle[i].desc_en_sim)>>
                /\ MinThreshold(english_part, arabic_part)
                       = Threshold(english_part))

(* A Latin letter next to U+0700, taken through all three stages. *)
C17_Witness ==
    /\ pc = "done"
    /\ response.status = 200
    /\ calls = <<"FullText", "FallbackSubstring", "Trigram">>
    /\ catalog # <<>>
    /\ \E k \in DOMAIN english_part : english_part[k] > 1791
    /\ \E k \in DOMAIN english_part : english_part[k] = 97
    /\ english_part = Strip(Param(params, "q"))

-----------------------------------------------------------------------------
(* s is a and b shuffled together, each in its own order. *)
RECURSIVE IsMerge(_, _, _)
IsMerge(s, a, b) ==
    IF s = <<>> THEN a = <<>> /\ b = <<>>
    ELSE \/ a # <<>> /\ Head(a) = Head(s) /\ IsMerge(Tail(s), Tail(a), b)
         \/ b # <<>> /\ Head(b) = Head(s) /\ IsMerge(Tail(s), a, Tail(b))

(* C18: every character of the query is in exactly one part, the Arabic    *)
(* ones in the Arabic part and the others in the Latin part, in the order  *)
(* they had; and splitting the Latin part followed by the Arabic part      *)
(* gives the same two parts.                                               *)
C18_SegmentationIdempotent ==
    Segmented =>
        /\ IsMerge(Strip(Param(params, "q")), english_part, arabic_part)
        /\ NoArabicCodePoint(english_part)
        /\ \A k \in DOMAIN arabic_part :
               1536 <= arabic_part[k] /\ arabic_part[k] <= 1791
        /\ EnglishPart(english_part \o arabic_part) = english_part
        /\ ArabicPart(english_part \o arabic_part) = arabic_part

(* Arabic and other characters alternate in the query. *)
C18_Witness ==
    /\ pc = "done"
    /\ Len(english_part) = 2
    /\ Len(arabic_part) = 2
    /\ Strip(Param(params, "q")) # english_part \o arabic_part
    /\ Strip(Param(params, "q")) # arabic_part \o english_part

-----------------------------------------------------------------------------
(* The rows the CSV import wrote. *)
Ingested == {k \in DOMAIN writes : writes[k].by = "bulk_create"}

(* C19: a row the CSV import wrote with protein p passes the min_protein   *)
(* filter of bound b exactly when p >= b.                                  *)
C19_MinProteinKeepsIngested ==
    [][pc = "apply_filters" /\ pc' = "respond"
           /\ Param(params, "min_protein") # <<>> =>
          \A k \in Ingested :
              writes[k].id \in search_results.ids =>
                  (writes[k].id \in search_results'.ids
                      <=> writes[k].protein
                              >= ParseInt(Param(params, "min_protein")).value)]_vars

(* Some word of a title of the catalog starts with a token of the query. *)
TitlePrefixHit ==
    \E i \in Ids :
        \E w \in Range(Split(catalog[i].name_en)) \cup Range(Split(catalog[i].name_ar)) :
            \E t \in Range(Split(english_part)) \cup Range(Split(arabic_part)) :
                Len(t) >= 2 /\ IsPrefix(LowerStr(t), LowerStr(w))

(* C20: every Product written by save() or by the import has its search    *)
(* vector filled from its titles and descriptions, so a default-strategy   *)
(* query with a token that starts a title word is answered by FullText     *)
(* alone; the post-save handler names declared fields only and does not    *)
(* fail.                                                                   *)
C20_VectorFilledOnCreate ==
    /\ \A k \in DOMAIN writes :
           /\ writes[k].signal # "raised"
           /\ writes[k].id \in Ids
           /\ catalog[writes[k].id].search_vector = ToTsVector(catalog[writes[k].id])
    /\ HandlerFields \subseteq ProductFields
    /\ (DefaultHint /\ CascadeDone /\ TitlePrefixHit => calls = <<"FullText">>)

-----------------------------------------------------------------------------
(* The rows the default cascade ends with: FullText's if it finds any,     *)
(* else the substring stage's if it finds any, else Trigram's.             *)
DefaultCascadeIds ==
    IF FullTextHit THEN FullTextHitIds
    ELSE IF TitleHitIds # {} THEN TitleHitIds
    ELSE {i \in Ids : BestScore(i, english_part, arabic_part) > EffectiveThreshold}

(* C21: a hint other than exactly 'trigram' or 'hybrid' (unknown, empty,   *)
(* differently cased or absent) takes the default cascade and gives no     *)
(* error; the first stage depends on the hint alone, whatever the query.   *)
C21_HintAloneSelectsEntry ==
    /\ (calls # <<>> =>
            calls[1] = IF Hint = str_trigram THEN "Trigram" ELSE "FullText")
    /\ (pc \in {"hybrid_search", "hybrid_check"}
            \/ (\E k \in DOMAIN stack : stack[k] = "hybrid_search") =>
            Hint = str_hybrid)
    /\ (Hint = str_hybrid /\ pc = "full_text_search" =>
            stack # <<>> /\ Head(stack) = "hybrid_search")
    /\ (DefaultHint =>
            /\ (CascadeDone => search_results.ids = DefaultCascadeIds)
            /\ (pc = "done" /\ ~Blank(Param(params, "q")) =>
                    response.status = 200))

(* The hint 'Trigram' is answered by the default cascade, here by its      *)
(* substring stage, although Trigram alone would have found nothing.       *)
C21_Witness ==
    /\ Hint = str_Trigram
    /\ pc = "done"
    /\ response.status = 200
    /\ response.body # <<>>
    /\ calls = <<"FullText", "FallbackSubstring">>
    /\ NoTrigramHit

=============================================================================
